---------------------------- MODULE Spec2Model ----------------------------
(***************************************************************************)
(* Model of github.com/andviro/middleware: the composition engine          *)
(* (middleware.go) and the stacked state machine built on it               *)
(* (state/state.go).                                                       *)
(*                                                                         *)
(* Go function values are modelled as terms (records tagged by k); a       *)
(* closure's term holds the variables the closure captures, and the        *)
(* closure's body is an operator over (captured variables, ctx, next, w),  *)
(* where the world w carries everything a call can change or produce: the  *)
(* trace of side effects, the heap of State structs, the Store and the     *)
(* returned error value (w.out).                                           *)
(***************************************************************************)
EXTENDS Integers, Sequences, FiniteSets, TLC

VARIABLES
    obj,     \* the middleware or handler value under construction/test
    runs,    \* the last invocation of obj; of a Branch, the last two
    heap,    \* the State structs allocated so far; a *State is an index, 0 is nil
    store,   \* the Store: the *State it holds
    pool,    \* the transition middlewares constructed from a ready-made State
    hist     \* the stored States along a run of Push, Push, Pop, Pop in progress

vars == <<obj, runs, heap, store, pool, hist>>

-----------------------------------------------------------------------------
(* Bounds *)

MaxLen == 2      \* longest list of middlewares given to a variadic operator
NumMw == 2       \* number of distinct labelled call-through middlewares
MaxDepth == 2    \* number of operators nested around the innermost middleware
MaxHeap == 3     \* number of State structs that can be allocated
MaxPool == 1     \* number of transition middlewares built from a ready-made State

Seqs(S, n) == UNION {[1..k -> S] : k \in 0..n}

-----------------------------------------------------------------------------
(* Values *)

\* error values: nil, a genuine failure, a *State (v is the pointer, possibly
\* the nil pointer 0 inside a non-nil interface), or a run-time panic
OutNil == [k |-> "nil", v |-> 0]
OutErr(i) == [k |-> "err", v |-> i]
OutState(p) == [k |-> "state", v |-> p]
OutPanic == [k |-> "panic", v |-> 0]

\* context.Context: the value under "key" (as in the tests) and the binding
\* under stateKey: none, a *State, or a State struct
NoBinding == [tag |-> "none", p |-> 0, s |-> <<>>]
PtrBinding(p) == [tag |-> "ptr", p |-> p, s |-> <<>>]
ValBinding(s) == [tag |-> "val", p |-> 0, s |-> <<s>>]
Ctx(key) == [key |-> key, st |-> NoBinding]
WithValue(ctx, b) == [ctx EXCEPT !.st = b]

Keys == {1, 2, 3}
Contexts == {Ctx(key) : key \in Keys}

\* Current returns the *State bound in the context, nil for any other binding
Current(ctx) == IF ctx.st.tag = "ptr" THEN ctx.st.p ELSE 0

\* one side effect observed by the tests' buffer
Ev(e, id, cur) == [e |-> e, id |-> id, cur |-> cur]

\* the nil func value (Handler(nil), Middleware(nil), Default)
Nil == [k |-> "nil"]
Default == Nil

\* mwFactory(s, buf): writes "mw(s)" and calls next.Apply(ctx)
MwAtom(i) == [k |-> "mw", id |-> i]
\* handlerFactory(s, buf) / the handler of Test_ErrorPasses: writes "h(s)",
\* returns out
HAtom(i, out) == [k |-> "h", id |-> i, out |-> out]
\* predicates of the tests: ctx.Value("key") == v
KeyEq(v) == [k |-> "keyEq", v |-> v]

\* a middleware that writes "stop(s)" and returns out without calling next
StopAtom(i, out) == [k |-> "stop", id |-> i, out |-> out]

MwAtoms == {MwAtom(i) : i \in 1..NumMw}
TestError == OutErr(1)
StopError == OutErr(5)
Continuations == {Nil, HAtom(0, OutNil), HAtom(0, TestError)}

Receivers == MwAtoms \cup {Nil}

\* the failures of the Store and of a context function
GetError == OutErr(2)
SetError == OutErr(3)
FnError == OutErr(4)

\* State{Key, Payload, Prev}
State(key, payload, prev) == [Key |-> key, Payload |-> payload, Prev |-> prev]
StateKeys == {"A", "B"}

\* the world at the start of an invocation in which the Store's Get returns
\* getErr and its Set returns setErr
World(getErr, setErr) ==
    [trace |-> <<>>, heap |-> heap, store |-> store, out |-> OutNil,
     getErr |-> getErr, setErr |-> setErr]
InitWorld == World(OutNil, OutNil)
Log(w, ev) == [w EXCEPT !.trace = Append(@, ev)]
Ret(w, out) == [w EXCEPT !.out = out]

-----------------------------------------------------------------------------
(* middleware.go *)

RECURSIVE Apply(_, _, _)
RECURSIVE CallHandler(_, _, _)
RECURSIVE CallMiddleware(_, _, _, _)
RECURSIVE HandlerUse(_, _)

RECURSIVE EvalPredicate(_, _)
RECURSIVE AndLoop(_, _)
RECURSIVE OrLoop(_, _)

\* func And(ps ...Predicate) Predicate, and the loop of its closure
And(ps) == [k |-> "And", ps |-> ps]
AndLoop(ps, ctx) ==
    IF ps = <<>> THEN "true"
    ELSE LET r == EvalPredicate(Head(ps), ctx)
         IN  IF r = "true" THEN AndLoop(Tail(ps), ctx) ELSE r

\* func Or(ps ...Predicate) Predicate, and the loop of its closure
Or(ps) == [k |-> "Or", ps |-> ps]
OrLoop(ps, ctx) ==
    IF ps = <<>> THEN "false"
    ELSE LET r == EvalPredicate(Head(ps), ctx)
         IN  IF r = "false" THEN OrLoop(Tail(ps), ctx) ELSE r

\* func Not(p Predicate) Predicate, and its closure
Not(p) == [k |-> "Not", p |-> p]
NotClosure(p, ctx) ==
    LET r == EvalPredicate(p, ctx)
    IN  CASE r = "true" -> "false" [] r = "false" -> "true" [] OTHER -> r

\* the call p(ctx) of a Predicate value: "true", "false" or "panic"
EvalPredicate(p, ctx) ==
    CASE p.k = "keyEq" -> IF ctx.key = p.v THEN "true" ELSE "false"
      [] p.k = "And" -> AndLoop(p.ps, ctx)
      [] p.k = "Or" -> OrLoop(p.ps, ctx)
      [] p.k = "Not" -> NotClosure(p.p, ctx)

\* the predicates p1, p2 of the tests, and one that overlaps p2
Preds == {KeyEq(1), KeyEq(2), Not(KeyEq(1))}

ThenNoNilCheck(mw, h) == [k |-> "Then", mw |-> mw, h |-> h]

\* func (mw Middleware) Then(h Handler) Handler
Then(mw, h) ==
    IF mw = Nil THEN h ELSE [k |-> "Then", mw |-> mw, h |-> h]

ThenClosureHidesError(mw, h, ctx, w) ==
    LET r == CallMiddleware(mw, ctx, h, w)
    IN  IF r.out.k = "err" THEN Ret(r, OutNil) ELSE r

ThenClosureRunsHandlerAnyway(mw, h, ctx, w) ==
    LET r == CallMiddleware(mw, ctx, h, w)
    IN  IF r.out = OutNil THEN r ELSE Ret(Apply(h, ctx, r), r.out)

\* body of the closure Then returns
ThenClosure(mw, h, ctx, w) == CallMiddleware(mw, ctx, h, w)

HandlerUseReversed(h, mws) ==
    IF mws = <<>> THEN h
    ELSE HandlerUse(Then(Head(mws), h), Tail(mws))

HandlerUseSkipsLast(h, mws) ==
    IF mws = <<>> THEN h
    ELSE HandlerUse(h, SubSeq(mws, 1, Len(mws) - 1))

\* func (h Handler) Use(mws ...Middleware) Handler: the loop from the last
\* middleware down to the first
HandlerUse(h, mws) ==
    IF mws = <<>> THEN h
    ELSE HandlerUse(Then(mws[Len(mws)], h), SubSeq(mws, 1, Len(mws) - 1))

\* func (h Handler) Apply(ctx) error
Apply(h, ctx, w) ==
    IF h = Nil THEN Ret(w, OutNil) ELSE CallHandler(h, ctx, w)

\* func Compose(mws ...Middleware) Middleware
Compose(mws) == [k |-> "Compose", mws |-> mws]

\* body of the closure Compose returns
ComposeClosure(mws, ctx, next, w) == Apply(HandlerUse(next, mws), ctx, w)

\* func (mw Middleware) Use(mws ...Middleware) Middleware
MiddlewareUse(mw, mws) == [k |-> "Use", mw |-> mw, mws |-> mws]

\* body of the closure Middleware.Use returns
MiddlewareUseClosure(mw, mws, ctx, next, w) ==
    Apply(Then(mw, HandlerUse(next, mws)), ctx, w)

\* func Lazy(f Factory) Middleware
Lazy(f) == [k |-> "Lazy", f |-> f]

\* the Factory closure Branch hands to Lazy
BranchFactory(p, trueMw, mw) ==
    [k |-> "branchFactory", p |-> p, trueMw |-> trueMw, mw |-> mw]

BranchFactorySwapped(p, trueMw, mw, ctx) ==
    LET r == EvalPredicate(p, ctx)
    IN  CASE r = "true" -> [panic |-> FALSE, mw |-> mw]
          [] r = "false" -> [panic |-> FALSE, mw |-> trueMw]
          [] OTHER -> [panic |-> TRUE, mw |-> Nil]

\* body of the Factory closure of Branch
BranchFactoryClosure(p, trueMw, mw, ctx) ==
    LET r == EvalPredicate(p, ctx)
    IN  CASE r = "true" -> [panic |-> FALSE, mw |-> trueMw]
          [] r = "false" -> [panic |-> FALSE, mw |-> mw]
          [] OTHER -> [panic |-> TRUE, mw |-> Nil]

\* the call f(ctx) of a Factory value
CallFactory(f, ctx) ==
    CASE f.k = "branchFactory" -> BranchFactoryClosure(f.p, f.trueMw, f.mw, ctx)

LazyClosureNoApply(f, ctx, next, w) ==
    LET r == CallFactory(f, ctx)
    IN  IF r.panic THEN Ret(w, OutPanic)
        ELSE CallHandler(Then(r.mw, next), ctx, w)

\* body of the closure Lazy returns
LazyClosure(f, ctx, next, w) ==
    LET r == CallFactory(f, ctx)
    IN  IF r.panic THEN Ret(w, OutPanic)
        ELSE Apply(Then(r.mw, next), ctx, w)

\* func (mw Middleware) Branch(p Predicate, mws ...Middleware) Middleware
Branch(mw, p, mws) == Lazy(BranchFactory(p, MiddlewareUse(mw, mws), mw))

\* func Optional(p Predicate, mws ...Middleware) Middleware
Optional(p, mws) == Branch(Nil, p, mws)

\* func (mw Middleware) On(p Predicate, h Handler) Middleware
On(mw, p, h) == [k |-> "On", mw |-> mw, p |-> p, h |-> h]

OnClosureSkipsReceiver(mw, p, h, ctx, next, w) ==
    LET r == EvalPredicate(p, ctx)
    IN  CASE r = "true" -> Apply(h, ctx, w)
          [] r = "false" -> Apply(Then(mw, next), ctx, w)
          [] OTHER -> Ret(w, OutPanic)

\* body of the closure On returns
OnClosure(mw, p, h, ctx, next, w) ==
    LET r == EvalPredicate(p, ctx)
    IN  CASE r = "true" -> Apply(Then(mw, h), ctx, w)
          [] r = "false" -> Apply(Then(mw, next), ctx, w)
          [] OTHER -> Ret(w, OutPanic)

(* state/state.go *)

RECURSIVE CallFn(_, _, _)

\* a new State struct on the heap; the result's out is the pointer to it
Alloc(w, s) ==
    [w EXCEPT !.heap = Append(@, s), !.out = OutState(Len(w.heap) + 1)]

\* the values handed to Next and Push: a literal key, a context function
\* (which writes "f(id)" and returns ret: nil, a failure, or a new State of
\* some key), a ready-made State
StrVal(key) == [k |-> "string", key |-> key]
FnVal(id, ret) == [k |-> "func", id |-> id, ret |-> ret]
StateVal(s) == [k |-> "State", s |-> s]
NewState(key) == [k |-> "new", key |-> key]

\* func lazy(val interface{}): the function it returns; in the State case the
\* function returns the address of the type switch's variable t, which is
\* allocated once, when lazy is called: ptr is that address
lazy(val, ptr) ==
    CASE val.k = "string" -> [k |-> "newState", key |-> val.key]
      [] val.k = "func" -> val
      [] val.k = "State" -> [k |-> "addrOf", ptr |-> ptr]
      [] OTHER -> Nil

\* func Next(val interface{}) middleware.Middleware, given f = lazy(val)
Next(f) == [k |-> "Next", f |-> f]

NextClosureEvaluatesFirst(f, ctx, next, w) ==
    LET r == CallFn(f, ctx, w)
        n == Apply(next, ctx, r)
    IN  IF n.out # OutNil THEN n ELSE Ret(n, r.out)

NextClosureOverridesSignal(f, ctx, next, w) ==
    LET r == Apply(next, ctx, w)
    IN  IF r.out.k \in {"err", "panic"} THEN r ELSE CallFn(f, ctx, r)

\* body of the closure Next returns
NextClosure(f, ctx, next, w) ==
    LET r == Apply(next, ctx, w)
    IN  IF r.out # OutNil THEN r ELSE CallFn(f, ctx, r)

\* func Push(val interface{}) middleware.Middleware, given f = lazy(val)
Push(f) == Next([k |-> "pushFn", f |-> f])

PushFnKeepsPrev(f, ctx, w) ==
    LET r == CallFn(f, ctx, w)
    IN  CASE r.out.k = "state" /\ r.out.v # 0 -> r
          [] r.out.k = "state" /\ r.out.v = 0 -> Ret(r, OutPanic)
          [] r.out.k = "panic" -> r
          [] OTHER -> Ret(r, OutState(0))

\* body of the function Push hands to Next: a result of f that is no *State
\* leaves next the nil *State, which is returned as a non-nil error
PushFn(f, ctx, w) ==
    LET prev == Current(ctx)
        r == CallFn(f, ctx, w)
    IN  CASE r.out.k = "state" /\ r.out.v # 0 ->
               [r EXCEPT !.heap[r.out.v].Prev = prev]
          [] r.out.k = "state" /\ r.out.v = 0 -> Ret(r, OutPanic)
          [] r.out.k = "panic" -> r
          [] OTHER -> Ret(r, OutState(0))

\* func Pop() middleware.Middleware
Pop == Next([k |-> "popFn"])

PopFnStays(ctx, w) ==
    LET cur == Current(ctx)
    IN  IF cur = 0 THEN Ret(w, OutPanic) ELSE Ret(w, OutState(cur))

\* body of the function Pop hands to Next: Current(ctx).Prev
PopFn(ctx, w) ==
    LET cur == Current(ctx)
    IN  IF cur = 0 THEN Ret(w, OutPanic) ELSE Ret(w, OutState(w.heap[cur].Prev))

\* the call f(ctx) of a func(context.Context) error
CallFn(f, ctx, w) ==
    CASE f.k = "nil" -> Ret(w, OutPanic)
      [] f.k = "newState" -> Alloc(w, State(f.key, 0, 0))
      [] f.k = "addrOf" -> Ret(w, OutState(f.ptr))
      [] f.k = "func" ->
            LET l == Log(w, Ev("f", f.id, Current(ctx)))
            IN  IF f.ret.k = "new" THEN Alloc(l, State(f.ret.key, 0, 0))
                ELSE Ret(l, f.ret)
      [] f.k = "pushFn" -> PushFn(f.f, ctx, w)
      [] f.k = "popFn" -> PopFn(ctx, w)

\* func With(state State) middleware.Middleware
With(state) == [k |-> "With", state |-> state]

\* body of the closure With returns: the value bound under stateKey is the
\* State struct itself
WithClosure(state, ctx, next, w) ==
    Apply(next, WithValue(ctx, ValBinding(state)), w)

\* the targets handed to Match: a literal key, a *State, a regexp.Regexp
\* (given by the set of keys it matches), and StateVal(s) for a value of a
\* type Match has no case for
StatePtr(ptr) == [k |-> "*State", ptr |-> ptr]
RegexpVal(lang) == [k |-> "Regexp", lang |-> lang]

Bool(b) == IF b THEN "true" ELSE "false"

RECURSIVE DeepEqual(_, _, _, _)

\* reflect.DeepEqual of two *State over heap hp: equal pointers are equal,
\* a nil and a non-nil pointer are not, otherwise the structs are compared
\* field by field; a pair of pointers met again on the way counts as equal,
\* which is what remains when the n pairs that can be met have been spent
DeepEqual(p, q, hp, n) ==
    CASE p = q -> TRUE
      [] p # q /\ (p = 0 \/ q = 0) -> FALSE
      [] OTHER ->
            \/ n = 0
            \/ /\ hp[p].Key = hp[q].Key
               /\ hp[p].Payload = hp[q].Payload
               /\ DeepEqual(hp[p].Prev, hp[q].Prev, hp, n - 1)

\* func Match(target interface{}) middleware.Predicate: the function f chosen
\* by the type switch, applied to st; reading st.Key of the nil pointer panics
MatchFn(t, st, hp) ==
    CASE t.k = "string" ->
            IF st = 0 THEN "panic" ELSE Bool(t.key = hp[st].Key)
      [] t.k = "*State" -> Bool(DeepEqual(t.ptr, st, hp, Len(hp) * Len(hp)))
      [] t.k = "Regexp" ->
            IF st = 0 THEN "panic" ELSE Bool(hp[st].Key \in t.lang)
      [] OTHER -> "false"

\* body of the Predicate closure Match returns: ok holds when the value
\* bound under stateKey is a *State, the nil pointer included
MatchClosure(t, ctx, hp) ==
    IF ctx.st.tag = "ptr" THEN MatchFn(t, ctx.st.p, hp) ELSE "false"

\* a handler that writes "h(0)", evaluates Match(t)(ctx), writes the result
\* and succeeds
MatchHandler(t) == [k |-> "matchH", t |-> t]
MatchHandlerBody(t, ctx, w) ==
    LET l == Log(w, Ev("h", 0, Current(ctx)))
        r == MatchClosure(t, ctx, w.heap)
    IN  IF r = "panic" THEN Ret(l, OutPanic)
        ELSE Ret(Log(l, Ev(r, 0, Current(ctx))), OutNil)

\* type Store interface: Get returns the stored *State or fails
StoreGet(w) ==
    IF w.getErr = OutNil
    THEN Ret(Log(w, Ev("Get", 0, w.store)), OutNil)
    ELSE Ret(Log(w, Ev("Get", 0, 0)), w.getErr)

\* type Store interface: Set stores the *State or fails
StoreSet(w, p) ==
    IF w.setErr = OutNil
    THEN Ret(Log([w EXCEPT !.store = p], Ev("Set", 0, p)), OutNil)
    ELSE Ret(Log(w, Ev("Set", 0, p)), w.setErr)

\* func Machine(factory func(context.Context) Store) middleware.Middleware
Machine == [k |-> "Machine"]

MachineClosureSetsAlways(ctx, next, w) ==
    LET g == StoreGet(Log(w, Ev("factory", 0, 0)))
        r == CallHandler(next, WithValue(ctx, PtrBinding(w.store)), g)
    IN  IF g.out # OutNil THEN g
        ELSE IF r.out.k \in {"state", "err"} THEN StoreSet(r, r.out.v) ELSE r

MachineClosureNoBinding(ctx, next, w) ==
    LET g == StoreGet(Log(w, Ev("factory", 0, 0)))
        r == CallHandler(next, ctx, g)
    IN  IF g.out # OutNil THEN g
        ELSE IF r.out.k = "state" THEN StoreSet(r, r.out.v) ELSE r

MachineClosureIgnoresGetError(ctx, next, w) ==
    LET g == StoreGet(Log(w, Ev("factory", 0, 0)))
        r == CallHandler(next, WithValue(ctx, PtrBinding(w.store)), g)
    IN  IF r.out.k = "state" THEN StoreSet(r, r.out.v) ELSE r

\* body of the closure Machine returns; the continuation is called as
\* next(ctx), not through Apply
MachineClosure(ctx, next, w) ==
    LET g == StoreGet(Log(w, Ev("factory", 0, 0)))
        r == CallHandler(next, WithValue(ctx, PtrBinding(w.store)), g)
    IN  IF g.out # OutNil THEN g
        ELSE IF r.out.k = "state" THEN StoreSet(r, r.out.v) ELSE r

(* the calls of function values *)

\* the call h(ctx) of a Handler value; calling a nil func panics
CallHandler(h, ctx, w) ==
    CASE h.k = "nil" -> Ret(w, OutPanic)
      [] h.k = "h" -> Ret(Log(w, Ev("h", h.id, Current(ctx))), h.out)
      [] h.k = "Then" -> ThenClosure(h.mw, h.h, ctx, w)
      [] h.k = "matchH" -> MatchHandlerBody(h.t, ctx, w)

\* the call m(ctx, next) of a Middleware value; calling a nil func panics
CallMiddleware(m, ctx, next, w) ==
    CASE m.k = "nil" -> Ret(w, OutPanic)
      [] m.k = "mw" -> Apply(next, ctx, Log(w, Ev("mw", m.id, Current(ctx))))
      [] m.k = "stop" -> Ret(Log(w, Ev("stop", m.id, Current(ctx))), m.out)
      [] m.k = "Compose" -> ComposeClosure(m.mws, ctx, next, w)
      [] m.k = "Use" -> MiddlewareUseClosure(m.mw, m.mws, ctx, next, w)
      [] m.k = "Lazy" -> LazyClosure(m.f, ctx, next, w)
      [] m.k = "On" -> OnClosure(m.mw, m.p, m.h, ctx, next, w)
      [] m.k = "Next" -> NextClosure(m.f, ctx, next, w)
      [] m.k = "Machine" -> MachineClosure(ctx, next, w)
      [] m.k = "With" -> WithClosure(m.state, ctx, next, w)

-----------------------------------------------------------------------------
(* The program: values are constructed, then invoked *)

NoArgs == [recv |-> Nil, p |-> Nil, mws |-> <<>>, tbl |-> <<>>, h |-> Nil,
           form |-> "", depth |-> 0, val |-> Nil]
Obj(op, type, t, args) == [op |-> op, type |-> type, t |-> t, args |-> args]

\* what is kept of one invocation: its inputs (the context, the continuation,
\* the Store's state and behaviour), its trace, its outcome, the number of
\* State structs it allocated and, for a Machine, the outcome sig of its
\* continuation
Run(ctx, next, w0, w, sig) ==
    [ctx |-> ctx, next |-> next, trace |-> w.trace, out |-> w.out,
     pre |-> w0.store, getErr |-> w0.getErr, setErr |-> w0.setErr,
     allocs |-> Len(w.heap) - Len(w0.heap), sig |-> sig]

\* the runs kept after run r: of a value that chooses per invocation, the
\* previous run too
Window(rs, r) ==
    IF rs = <<>> \/ obj.op # "Branch" THEN <<r>> ELSE <<rs[Len(rs)], r>>

\* no stack round trip is in progress
NoTrip == [ptrs |-> <<>>, keys |-> <<>>]

Init ==
    /\ obj = Obj("none", "none", Nil, NoArgs)
    /\ runs = <<>>
    /\ heap = <<>>
    /\ store = 0
    /\ pool = {}
    /\ hist = NoTrip

\* nothing has been constructed yet
Fresh == obj.op = "none"

\* m := Compose(mws...)
BuildCompose ==
    \E mws \in Seqs(MwAtoms, MaxLen) :
        /\ Fresh
        /\ obj' = Obj("Compose", "Middleware", Compose(mws),
                      [NoArgs EXCEPT !.mws = mws])
        /\ runs' = <<>>
        /\ UNCHANGED <<heap, store, pool, hist>>

\* m := mw.Use(mws...)
BuildUse ==
    \E recv \in Receivers, mws \in Seqs(MwAtoms, MaxLen) :
        /\ Fresh
        /\ obj' = Obj("Use", "Middleware", MiddlewareUse(recv, mws),
                      [NoArgs EXCEPT !.recv = recv, !.mws = mws])
        /\ runs' = <<>>
        /\ UNCHANGED <<heap, store, pool, hist>>

\* m := mw.Branch(p, mws...)
BuildBranch ==
    \E recv \in Receivers, p \in Preds, mws \in Seqs(MwAtoms, MaxLen) :
        /\ Fresh
        /\ obj' = Obj("Branch", "Middleware", Branch(recv, p, mws),
                      [NoArgs EXCEPT !.recv = recv, !.p = p, !.mws = mws])
        /\ runs' = <<>>
        /\ UNCHANGED <<heap, store, pool, hist>>

\* m := Default.On(p, h), or m = m.On(p, h) on a chain of On; the i-th
\* registered handler writes "h(i)"
BuildOn ==
    \E p \in Preds, extend \in BOOLEAN :
        LET base == IF extend THEN obj ELSE Obj("On", "Middleware", Default, NoArgs)
            h == HAtom(Len(base.args.tbl) + 1, OutNil)
        IN  /\ IF extend THEN obj.op = "On" /\ Len(obj.args.tbl) < MaxLen ELSE Fresh
            /\ obj' = Obj("On", "Middleware", On(base.t, p, h),
                          [base.args EXCEPT !.tbl = Append(@, [p |-> p, h |-> h])])
            /\ runs' = <<>>
            /\ UNCHANGED <<heap, store, pool, hist>>

\* a chain grown one operator at a time around the middleware "mw(1)": the
\* operator at depth d brings in the middleware "mw(d+1)"
BuildChain ==
    \E extend \in BOOLEAN, form \in {"Compose-before", "Compose-after", "Use-on", "Use-with"} :
        IF ~extend
        THEN /\ Fresh
             /\ obj' = Obj("Chain", "Middleware", MwAtom(1), NoArgs)
             /\ runs' = <<>>
             /\ UNCHANGED <<heap, store, pool, hist>>
        ELSE LET a == MwAtom(obj.args.depth + 2)
                 t == CASE form = "Compose-before" -> Compose(<<a, obj.t>>)
                        [] form = "Compose-after" -> Compose(<<obj.t, a>>)
                        [] form = "Use-on" -> MiddlewareUse(obj.t, <<a>>)
                        [] form = "Use-with" -> MiddlewareUse(a, <<obj.t>>)
             IN  /\ obj.op = "Chain"
                 /\ obj.args.depth < MaxDepth
                 /\ obj' = Obj("Chain", "Middleware", t,
                               [obj.args EXCEPT !.depth = @ + 1])
                 /\ runs' = <<>>
                 /\ UNCHANGED <<heap, store, pool, hist>>

\* h2 := m.Then(h) or h2 := h.Use(m) for a chain m
BuildChainHandler ==
    \E h \in Continuations, form \in {"Then", "Use"} :
        /\ obj.op = "Chain"
        /\ obj' = Obj("ChainHandler", "Handler",
                      IF form = "Then" THEN Then(obj.t, h) ELSE HandlerUse(h, <<obj.t>>),
                      [obj.args EXCEPT !.recv = obj.t, !.h = h, !.form = form])
        /\ runs' = <<>>
        /\ UNCHANGED <<heap, store, pool, hist>>

\* h2 := h.Use(mws...)
BuildHandlerUse ==
    \E h \in Continuations, mws \in Seqs(MwAtoms, MaxLen) :
        /\ Fresh
        /\ obj' = Obj("HandlerUse", "Handler", HandlerUse(h, mws),
                      [NoArgs EXCEPT !.h = h, !.mws = mws])
        /\ runs' = <<>>
        /\ UNCHANGED <<heap, store, pool, hist>>

\* h3 := mw.Then(h)
BuildThen ==
    \E mw \in MwAtoms, h \in Continuations :
        /\ Fresh
        /\ obj' = Obj("Then", "Handler", Then(mw, h),
                      [NoArgs EXCEPT !.recv = mw, !.h = h])
        /\ runs' = <<>>
        /\ UNCHANGED <<heap, store, pool, hist>>

\* m := Optional(p, mws...)
BuildOptional ==
    \E p \in Preds, mws \in Seqs(MwAtoms, MaxLen) :
        /\ Fresh
        /\ obj' = Obj("Optional", "Middleware", Optional(p, mws),
                      [NoArgs EXCEPT !.p = p, !.mws = mws])
        /\ runs' = <<>>
        /\ UNCHANGED <<heap, store, pool, hist>>

ShortForms ==
    {"Compose(links...).Then(h)", "h.Use(links...)",
     "Compose(Compose(before..., stop), after...).Then(h)",
     "first.Use(rest...).Then(h)"}

\* a chain whose links are the call-through middlewares before, a middleware
\* that fails without calling its continuation, and the call-through
\* middlewares after, around the handler h
BuildShort ==
    \E before \in Seqs(MwAtoms, MaxLen), after \in Seqs(MwAtoms, 1),
       h \in Continuations, form \in ShortForms :
        LET stop == StopAtom(0, StopError)
            links == before \o <<stop>> \o after
            t == CASE form = "Compose(links...).Then(h)" -> Then(Compose(links), h)
                   [] form = "h.Use(links...)" -> HandlerUse(h, links)
                   [] form = "Compose(Compose(before..., stop), after...).Then(h)" ->
                        Then(Compose(<<Compose(before \o <<stop>>)>> \o after), h)
                   [] form = "first.Use(rest...).Then(h)" ->
                        Then(MiddlewareUse(Head(links), Tail(links)), h)
        IN  /\ Fresh
            /\ obj' = Obj("Short", "Handler", t,
                          [NoArgs EXCEPT !.mws = before, !.tbl = after, !.h = h,
                                         !.form = form])
            /\ runs' = <<>>
            /\ UNCHANGED <<heap, store, pool, hist>>

IdentityForms ==
    {"Middleware(nil).Then(h)", "h.Use()", "h.Use(nil)", "Compose().Then(h)",
     "Compose(nil).Then(h)"}

\* the compositions with nothing in them
BuildIdentity ==
    \E h \in Continuations, form \in IdentityForms :
        LET t == CASE form = "Middleware(nil).Then(h)" -> Then(Nil, h)
                   [] form = "h.Use()" -> HandlerUse(h, <<>>)
                   [] form = "h.Use(nil)" -> HandlerUse(h, <<Nil>>)
                   [] form = "Compose().Then(h)" -> Then(Compose(<<>>), h)
                   [] form = "Compose(nil).Then(h)" -> Then(Compose(<<Nil>>), h)
        IN  /\ Fresh
            /\ obj' = Obj("Identity", "Handler", t,
                          [NoArgs EXCEPT !.h = h, !.form = form])
            /\ runs' = <<>>
            /\ UNCHANGED <<heap, store, pool, hist>>

\* m(ctx, next)
InvokeMiddleware ==
    /\ obj.type = "Middleware"
    /\ obj.op \notin {"Machine", "With"}
    /\ \E ctx \in Contexts, next \in Continuations :
         \E w \in {CallMiddleware(obj.t, ctx, next, InitWorld)} :
             /\ runs' = Window(runs, Run(ctx, next, InitWorld, w, OutNil))
             /\ Len(w.heap) <= MaxHeap
             /\ heap' = w.heap
             /\ store' = w.store
             /\ UNCHANGED <<pool, hist>>
    /\ UNCHANGED obj

\* h.Apply(ctx)
InvokeHandler ==
    /\ obj.type = "Handler"
    /\ \E ctx \in Contexts :
         \E w \in {Apply(obj.t, ctx, InitWorld)} :
             /\ runs' = Window(runs, Run(ctx, Nil, InitWorld, w, OutNil))
             /\ heap' = w.heap
             /\ store' = w.store
             /\ UNCHANGED <<pool, hist>>
    /\ UNCHANGED obj

EngineStep ==
    \/ BuildCompose
    \/ BuildUse
    \/ BuildBranch
    \/ BuildOn
    \/ BuildChain
    \/ BuildChainHandler
    \/ BuildIdentity
    \/ BuildHandlerUse
    \/ BuildThen
    \/ BuildOptional
    \/ BuildShort
    \/ InvokeMiddleware
    \/ InvokeHandler

Spec == Init /\ [][EngineStep]_vars

-----------------------------------------------------------------------------
(* The program of the state layer: transition middlewares are constructed   *)
(* and invoked, alone or as the chain of a Machine                          *)

\* the values of the tests of Next and Push
ReadyStates == {State("A", 0, 0)}
Fns == {FnVal(1, NewState("A")), FnVal(1, FnError)}
Values == {StrVal(key) : key \in StateKeys} \cup Fns
          \cup {StateVal(s) : s \in ReadyStates}

\* Next(val) or Push(val), where a ready-made State is copied to address ptr
Transition(kind, val, ptr) ==
    IF kind = "Next" THEN Next(lazy(val, ptr)) ELSE Push(lazy(val, ptr))

\* the heap after lazy(val): the copy t of a ready-made State is allocated
HeapAfterLazy(val) == IF val.k = "State" THEN Append(heap, val.s) ELSE heap

\* m := Next(val) or m := Push(val)
BuildTransition ==
    \E kind \in {"Next", "Push"}, val \in Values :
        /\ Fresh
        /\ Len(HeapAfterLazy(val)) <= MaxHeap
        /\ obj' = Obj(kind, "Middleware", Transition(kind, val, Len(heap) + 1),
                      [NoArgs EXCEPT !.val = val])
        /\ heap' = HeapAfterLazy(val)
        /\ runs' = <<>>
        /\ UNCHANGED <<store, pool, hist>>

\* m := Machine(factory)
BuildMachine ==
    /\ Fresh
    /\ obj' = Obj("Machine", "Middleware", Machine, NoArgs)
    /\ runs' = <<>>
    /\ UNCHANGED <<heap, store, pool, hist>>

\* beside a Machine that has not been invoked yet: t := Next(state) or
\* t := Push(state), kept for the chains of the invocations
BuildFromState ==
    \E kind \in {"Next", "Push"}, s \in ReadyStates :
        /\ obj.op = "Machine"
        /\ runs = <<>>
        /\ Cardinality(pool) < MaxPool
        /\ Len(heap) < MaxHeap
        /\ heap' = Append(heap, s)
        /\ pool' = pool \cup {Transition(kind, StateVal(s), Len(heap) + 1)}
        /\ UNCHANGED <<obj, runs, store, hist>>

\* the targets of the predicates: a literal key, a regular expression, a
\* State value (for which Match has no case) and the *State the program got
\* hold of last, which is the one in the Store
Targets ==
    {StrVal("A"), RegexpVal({"A"}), StateVal(State("A", 0, 0))}
    \cup {StatePtr(p) : p \in {store} \ {0}}
MatchHandlers == {MatchHandler(t) : t \in Targets}

\* m := With(state)
BuildWith ==
    \E s \in ReadyStates :
        /\ Fresh
        /\ obj' = Obj("With", "Middleware", With(s),
                      [NoArgs EXCEPT !.val = StateVal(s)])
        /\ runs' = <<>>
        /\ UNCHANGED <<heap, store, pool, hist>>

\* With(state)(ctx, next), the continuation being a handler of the tests or
\* one that evaluates a Match predicate
InvokeWith ==
    /\ obj.op = "With"
    /\ \E ctx \in Contexts, next \in Continuations \cup MatchHandlers :
         \E w \in {CallMiddleware(obj.t, ctx, next, InitWorld)} :
             /\ runs' = <<Run(ctx, next, InitWorld, w, OutNil)>>
             /\ heap' = w.heap
             /\ store' = w.store
             /\ UNCHANGED <<pool, hist>>
    /\ UNCHANGED obj

\* h := a handler that evaluates Match(target) on the context it is given
BuildMatch ==
    \E t \in Targets :
        /\ Fresh
        /\ obj' = Obj("Match", "Handler", MatchHandler(t),
                      [NoArgs EXCEPT !.val = t])
        /\ runs' = <<>>
        /\ UNCHANGED <<heap, store, pool, hist>>

\* Push(f) for a context function f that returns a genuine failure
FailingPush == Push(lazy(FnVal(1, FnError), 0))

\* the transition middlewares a chain can be made of
Transitions ==
    {Push(lazy(StrVal(key), 0)) : key \in StateKeys}
    \cup {Next(lazy(StrVal("A"), 0)), Pop} \cup pool
    \cup {FailingPush}

\* chains of two transition middlewares, outer.Then(inner.Then(h)): the
\* continuation of the outer one returns the State the inner one signals
NestedPush ==
    Then(Push(lazy(StrVal("B"), 0)),
         Then(Push(lazy(StrVal("A"), 0)), HAtom(0, OutNil)))
NestedPop ==
    Then(Next(lazy(FnVal(1, NewState("B")), 0)), Then(Pop, HAtom(0, OutNil)))
NestedNext ==
    Then(Pop, Then(Next(lazy(StrVal("A"), 0)), HAtom(0, OutNil)))
NestedChains == {NestedPush, NestedPop, NestedNext}

\* the chains given to the Machine: a handler, t.Then(h) for a handler h that
\* succeeds, and one t.Then(h) for a handler h that fails
Chains ==
    Continuations
    \cup MatchHandlers
    \cup {Then(t, HAtom(0, OutNil)) : t \in Transitions}
    \cup {Then(Push(lazy(StrVal("A"), 0)), HAtom(0, TestError))}
    \cup NestedChains

\* what kind of transition a chain t.Then(h) makes, and of what key
ChainKind(c) ==
    IF c.k # "Then" THEN "none"
    ELSE CASE c.mw.f.k = "pushFn" -> "Push"
           [] c.mw.f.k = "popFn" -> "Pop"
           [] OTHER -> "Next"
ChainFn(c) == IF c.mw.f.k = "pushFn" THEN c.mw.f.f ELSE c.mw.f
ChainKey(c) ==
    LET f == ChainFn(c)
    IN  CASE f.k = "newState" -> f.key
          [] f.k = "addrOf" -> heap[f.ptr].Key
          [] f.k = "func" /\ f.ret.k = "new" -> f.ret.key
          [] OTHER -> ""

\* the record of a stack round trip in progress: hist.ptrs is the State
\* stored before the first Push followed by the State stored after each step
\* of Push(A), Push(B), Pop, Pop made so far by successive invocations; hist.keys
\* are the keys pushed
IsBottom(p) == IF p = 0 THEN TRUE ELSE heap[p].Prev = 0

\* the record after an invocation with chain c that began with pre stored and
\* whose Set stored post
Advance(c, pre, post) ==
    LET kind == IF c \in NestedChains THEN "none"
                ELSE IF ChainKind(c) = "Push" /\ ChainKey(c) = "" THEN "none"
                ELSE ChainKind(c)
        n == Len(hist.ptrs)
    IN  CASE kind = "Push" /\ n = 2 /\ ChainKey(c) # hist.keys[1] ->
               [ptrs |-> Append(hist.ptrs, post), keys |-> Append(hist.keys, ChainKey(c))]
          [] kind = "Push" /\ ~(n = 2 /\ ChainKey(c) # hist.keys[1]) /\ IsBottom(pre) ->
               [ptrs |-> <<pre, post>>, keys |-> <<ChainKey(c)>>]
          [] kind = "Pop" /\ n \in {3, 4} ->
               [hist EXCEPT !.ptrs = Append(@, post)]
          [] OTHER -> NoTrip

\* whether the invocation that produced w called Set and Set succeeded
Stored(w) ==
    /\ w.trace # <<>>
    /\ w.trace[Len(w.trace)].e = "Set"
    /\ w.out = OutNil

\* the invocations of the Machine: every chain with a Store that works, and
\* one chain with a Store whose Get fails, or whose Set fails
FailingStoreChain == Then(Push(lazy(StrVal("A"), 0)), HAtom(0, OutNil))
MachineInputs ==
    {<<c, OutNil, OutNil>> : c \in Chains}
    \cup {<<FailingStoreChain, GetError, OutNil>>, <<FailingStoreChain, OutNil, SetError>>}
    \cup {<<Nil, GetError, OutNil>>}

\* what the chain returns when called with the stored State bound in the
\* context
ChainOutcome(chain, getErr, setErr) ==
    CallHandler(chain, WithValue(Ctx(1), PtrBinding(store)), World(getErr, setErr)).out

\* Machine(factory)(ctx, chain), with a Store whose Get and Set behave as
\* getErr and setErr say
InvokeMachine ==
    /\ obj.op = "Machine"
    /\ \E in \in MachineInputs :
         LET chain == in[1]
             getErr == in[2]
             setErr == in[3]
         IN
         \E w \in {CallMiddleware(obj.t, Ctx(1), chain, World(getErr, setErr))} :
             /\ Len(w.heap) <= MaxHeap
             /\ runs' = <<Run(Ctx(1), chain, World(getErr, setErr), w,
                               ChainOutcome(chain, getErr, setErr))>>
             /\ heap' = w.heap
             /\ store' = w.store
             /\ hist' = IF Stored(w) THEN Advance(chain, store, w.store) ELSE NoTrip
    /\ UNCHANGED <<obj, pool>>

MachineStep ==
    \/ BuildTransition
    \/ BuildMachine
    \/ BuildFromState
    \/ InvokeMachine
    \/ InvokeMiddleware
    \/ BuildWith
    \/ InvokeWith
    \/ BuildMatch
    \/ InvokeHandler

MachineSpec == Init /\ [][MachineStep]_vars

-----------------------------------------------------------------------------
(* Properties of the composition engine *)

Last == runs[Len(runs)]

\* the positions of the events e in a trace
At(trace, e) == {i \in 1..Len(trace) : trace[i].e = e}
Invoked(op) == obj.op = op /\ runs # <<>>

\* the trace of the call-through middlewares mws, in order
MwTrace(mws) == [i \in 1..Len(mws) |-> Ev("mw", mws[i].id, 0)]
\* the trace of a receiver: a call-through middleware or the absent one
RecvTrace(mw) == IF mw = Nil THEN <<>> ELSE MwTrace(<<mw>>)
\* the trace and outcome of applying handler h alone
HTrace(h) == IF h = Nil THEN <<>> ELSE <<Ev("h", h.id, 0)>>
HOut(h) == IF h = Nil THEN OutNil ELSE h.out

\* C1: invoking Compose(mws...) with a context and h runs mws[0], ...,
\* mws[n-1], then h, each exactly once and in that order, and returns h's
\* outcome.
C1_ComposeOrder ==
    Invoked("Compose") =>
        /\ Last.trace = MwTrace(obj.args.mws) \o HTrace(Last.next)
        /\ Last.out = HOut(Last.next)

C1_Witness ==
    /\ Invoked("Compose")
    /\ Len(obj.args.mws) = 2
    /\ obj.args.mws[1] # obj.args.mws[2]
    /\ Last.next = HAtom(0, TestError)
    /\ Len(Last.trace) = 3

\* what one invocation of mw.Branch(p, mws...) must do, by the truth of p in
\* that invocation's context
BranchRunOk(r) ==
    /\ r.trace = RecvTrace(obj.args.recv)
                 \o (IF EvalPredicate(obj.args.p, r.ctx) = "true"
                     THEN MwTrace(obj.args.mws) ELSE <<>>)
                 \o HTrace(r.next)
    /\ r.out = HOut(r.next)

\* C2: every invocation of mw.Branch(p, mws...) runs mw, then (only if p holds
\* of that invocation's context) mws in order, then the continuation; this
\* holds of each of two successive invocations of one Branch value.
C2_BranchPerCall ==
    obj.op = "Branch" => \A i \in 1..Len(runs) : BranchRunOk(runs[i])

C2_Witness ==
    /\ obj.op = "Branch"
    /\ obj.args.recv # Nil
    /\ Len(obj.args.mws) = 2
    /\ Len(runs) = 2
    /\ EvalPredicate(obj.args.p, runs[1].ctx) = "true"
    /\ EvalPredicate(obj.args.p, runs[2].ctx) = "false"
    /\ Len(runs[1].trace) = 4
    /\ Len(runs[2].trace) = 2

C2_WitnessFalseFirst ==
    /\ obj.op = "Branch"
    /\ Len(runs) = 2
    /\ EvalPredicate(obj.args.p, runs[1].ctx) = "false"
    /\ EvalPredicate(obj.args.p, runs[2].ctx) = "true"
    /\ Len(runs[2].trace) > Len(runs[1].trace)

\* the registrations of an On chain whose predicate holds of ctx
Matching(tbl, ctx) == {i \in 1..Len(tbl) : EvalPredicate(tbl[i].p, ctx) = "true"}
Min(S) == CHOOSE x \in S : \A y \in S : x <= y

\* C3: Default.On(p1,h1)...On(pk,hk): if no pi holds, no registered handler
\* runs and the caller's continuation runs (an absent one being a no-op); if
\* some pi holds, exactly the handler of the earliest-registered pi that holds
\* runs, and the caller's continuation does not.
C3_OnDispatch ==
    Invoked("On") =>
        LET hit == Matching(obj.args.tbl, Last.ctx)
        IN  IF hit = {}
            THEN Last.trace = HTrace(Last.next) /\ Last.out = HOut(Last.next)
            ELSE Last.trace = <<Ev("h", Min(hit), 0)>>

C3_Witness ==
    /\ Invoked("On")
    /\ Cardinality(Matching(obj.args.tbl, Last.ctx)) = 2
    /\ Last.next # Nil
    /\ Last.trace = <<Ev("h", 1, 0)>>

C3_WitnessNone ==
    /\ Invoked("On")
    /\ Len(obj.args.tbl) = 2
    /\ Matching(obj.args.tbl, Last.ctx) = {}
    /\ Last.next = Nil
    /\ Last.trace = <<>>

RECURSIVE ChainOrder(_)
RECURSIVE ChainOrderAll(_)
RECURSIVE HasUse(_)

\* the labels of the call-through middlewares of a chain, in the order the
\* chain was written: Compose(a, b) is a then b; for m.Use(a) this is m then a
ChainOrder(t) ==
    CASE t.k = "mw" -> <<t.id>>
      [] t.k = "Compose" -> ChainOrderAll(t.mws)
      [] t.k = "Use" -> ChainOrder(t.mw) \o ChainOrderAll(t.mws)
ChainOrderAll(ts) ==
    IF ts = <<>> THEN <<>> ELSE ChainOrder(Head(ts)) \o ChainOrderAll(Tail(ts))

\* whether the Middleware method Use occurs in a chain
HasUse(t) ==
    CASE t.k = "mw" -> FALSE
      [] t.k = "Compose" -> \E i \in 1..Len(t.mws) : HasUse(t.mws[i])
      [] t.k = "Use" -> TRUE

\* the chain and the handler of the last invocation of a chain: m(ctx, h),
\* m.Then(h)(ctx) or h.Use(m)(ctx)
ChainOf == IF obj.op = "Chain" THEN obj.t ELSE obj.args.recv
ChainEnd == IF obj.op = "Chain" THEN Last.next ELSE obj.args.h
ChainInvoked == obj.op \in {"Chain", "ChainHandler"} /\ runs # <<>>

Count(seq, x) == Cardinality({i \in 1..Len(seq) : seq[i] = x})

\* C4: a chain built with Compose/Use/Then from call-through middlewares around
\* a handler that returns a genuine failure returns exactly that failure; each
\* middleware of the chain has run exactly once and all of them before the
\* handler, which ran once; where no Middleware.Use is involved (whose order
\* of receiver and arguments is the matter of C10) the order is the order the
\* chain was written in.
C4_ErrorPasses ==
    (ChainInvoked /\ ChainEnd = HAtom(0, TestError)) =>
        LET n == obj.args.depth + 1
        IN  /\ Last.out = TestError
            /\ Len(Last.trace) = n + 1
            /\ Last.trace[n + 1] = Ev("h", 0, 0)
            /\ \A i \in 1..n : Count(Last.trace, Ev("mw", i, 0)) = 1
            /\ ~HasUse(ChainOf) =>
                 Last.trace = [i \in 1..n |-> Ev("mw", ChainOrder(ChainOf)[i], 0)]
                              \o <<Ev("h", 0, 0)>>

C4_Witness ==
    /\ obj.op = "ChainHandler"
    /\ runs # <<>>
    /\ obj.args.depth = MaxDepth
    /\ ~HasUse(ChainOf)
    /\ ChainOrder(ChainOf) = <<2, 1, 3>>
    /\ obj.args.h = HAtom(0, TestError)
    /\ Last.out = TestError

C4_WitnessUse ==
    /\ obj.op = "Chain"
    /\ runs # <<>>
    /\ obj.args.depth = MaxDepth
    /\ HasUse(ChainOf)
    /\ Last.next = HAtom(0, TestError)
    /\ Last.out = TestError

\* C9: Middleware(nil).Then(h), h.Use(), h.Use(nil), Compose().Then(h) and
\* Compose(nil).Then(h) each produce the trace and the outcome of h alone, for
\* every h including the absent one; and Compose() invoked with a continuation
\* (possibly absent) produces the trace and outcome of that continuation. None
\* panics.
C9_Identity ==
    /\ Invoked("Identity") =>
         /\ Last.trace = HTrace(obj.args.h)
         /\ Last.out = HOut(obj.args.h)
    /\ (Invoked("Compose") /\ obj.args.mws = <<>>) =>
         /\ Last.trace = HTrace(Last.next)
         /\ Last.out = HOut(Last.next)

C9_Witness ==
    /\ Invoked("Identity")
    /\ obj.args.form = "Compose(nil).Then(h)"
    /\ obj.args.h = Nil
    /\ Last.out = OutNil

C9_WitnessHandler ==
    /\ Invoked("Identity")
    /\ obj.args.form = "h.Use(nil)"
    /\ obj.args.h = HAtom(0, TestError)
    /\ Last.out = TestError

\* C10: mw.Use(a, b) invoked with h runs a, then b, then the receiver mw, then
\* h.
C10_UsePrepends ==
    Invoked("Use") =>
        Last.trace = MwTrace(obj.args.mws) \o RecvTrace(obj.args.recv)
                     \o HTrace(Last.next)

\* what the code does: the receiver runs first, then the given middlewares
C10_UseAppends ==
    Invoked("Use") =>
        Last.trace = RecvTrace(obj.args.recv) \o MwTrace(obj.args.mws)
                     \o HTrace(Last.next)

\* C11: h.Use(m1, ..., mn) runs m1, then m2, ..., then mn, then h, each exactly
\* once, and returns h's outcome; mw.Then(h) runs mw and then h.
C11_HandlerUseOrder ==
    /\ Invoked("HandlerUse") =>
         /\ Last.trace = MwTrace(obj.args.mws) \o HTrace(obj.args.h)
         /\ Last.out = HOut(obj.args.h)
    /\ Invoked("Then") =>
         /\ Last.trace = MwTrace(<<obj.args.recv>>) \o HTrace(obj.args.h)
         /\ Last.out = HOut(obj.args.h)

C11_Witness ==
    /\ Invoked("HandlerUse")
    /\ obj.args.mws = <<MwAtom(1), MwAtom(2)>>
    /\ obj.args.h = HAtom(0, OutNil)
    /\ Last.trace = <<Ev("mw", 1, 0), Ev("mw", 2, 0), Ev("h", 0, 0)>>

C11_WitnessThen ==
    /\ Invoked("Then")
    /\ obj.args.recv = MwAtom(1)
    /\ obj.args.h = HAtom(0, OutNil)
    /\ Last.trace = <<Ev("mw", 1, 0), Ev("h", 0, 0)>>

\* C12: Optional(p, mws...) invoked with a context and a continuation: if p
\* holds of the context, mws run in argument order and then the continuation;
\* if not, no middleware of mws runs and only the continuation does; an absent
\* continuation is a no-op in both cases, and the outcome is the
\* continuation's.
C12_Optional ==
    Invoked("Optional") =>
        /\ Last.trace = (IF EvalPredicate(obj.args.p, Last.ctx) = "true"
                         THEN MwTrace(obj.args.mws) ELSE <<>>)
                        \o HTrace(Last.next)
        /\ Last.out = HOut(Last.next)

C12_Witness ==
    /\ Invoked("Optional")
    /\ Len(obj.args.mws) = 2
    /\ EvalPredicate(obj.args.p, Last.ctx) = "false"
    /\ Last.next = Nil
    /\ Last.trace = <<>>
    /\ Last.out = OutNil

C12_WitnessHolds ==
    /\ Invoked("Optional")
    /\ obj.args.mws = <<MwAtom(2), MwAtom(1)>>
    /\ EvalPredicate(obj.args.p, Last.ctx) = "true"
    /\ Last.next = Nil
    /\ Last.trace = <<Ev("mw", 2, 0), Ev("mw", 1, 0)>>

\* C16: in a chain built with Compose/Use/Then in which one link returns a
\* failure without invoking its continuation, the links before it have run
\* exactly once each, in order, then that link; no later link and not the
\* handler has run, and the chain's outcome is that link's outcome. Where
\* Middleware.Use is involved (whose order of receiver and arguments is the
\* matter of C10): the failing link has run once, the handler has not run,
\* no link has run twice and the outcome is the failing link's.
C16_ShortCircuit ==
    Invoked("Short") =>
        /\ Last.out = StopError
        /\ At(Last.trace, "h") = {}
        /\ Cardinality(At(Last.trace, "stop")) = 1
        /\ Last.trace[Len(Last.trace)] = Ev("stop", 0, 0)
        /\ IF obj.args.form = "first.Use(rest...).Then(h)"
           THEN Len(Last.trace) <= Len(obj.args.mws) + 1
           ELSE Last.trace = MwTrace(obj.args.mws) \o <<Ev("stop", 0, 0)>>

C16_Witness ==
    /\ Invoked("Short")
    /\ obj.args.form = "Compose(links...).Then(h)"
    /\ obj.args.mws = <<MwAtom(2), MwAtom(1)>>
    /\ obj.args.tbl = <<MwAtom(2)>>
    /\ obj.args.h = HAtom(0, OutNil)
    /\ Last.out = StopError
    /\ Len(Last.trace) = 3

C16_WitnessHandlerUse ==
    /\ Invoked("Short")
    /\ obj.args.form = "h.Use(links...)"
    /\ obj.args.mws = <<MwAtom(1)>>
    /\ obj.args.tbl = <<MwAtom(2)>>
    /\ obj.args.h = HAtom(0, TestError)
    /\ Last.out = StopError

-----------------------------------------------------------------------------
(* Properties of the state layer *)

\* C5: in every invocation of the Machine, Store.Set is called exactly once,
\* with the signaled State, when the chain's outcome is a State; it is not
\* called when the outcome is success, a genuine failure, or when Get failed.
C5_SetOncePerTransition ==
    Invoked("Machine") =>
        LET sets == At(Last.trace, "Set")
        IN  IF Last.getErr = OutNil /\ Last.sig.k = "state"
            THEN /\ Cardinality(sets) = 1
                 /\ \A i \in sets : Last.trace[i].cur = Last.sig.v
            ELSE sets = {}

C5_Witness ==
    /\ Invoked("Machine")
    /\ Last.getErr = OutNil
    /\ Last.sig.k = "state"
    /\ Last.sig.v # 0
    /\ ChainKind(Last.next) = "Push"
    /\ Cardinality(At(Last.trace, "Set")) = 1
    /\ store = Last.sig.v
    /\ store # Last.pre

C5_WitnessFailure ==
    /\ Invoked("Machine")
    /\ Last.getErr = OutNil
    /\ Last.sig = TestError
    /\ Last.out = TestError
    /\ At(Last.trace, "Set") = {}

\* C6: in every Machine invocation whose Get succeeds on a present
\* continuation: the store is obtained from the factory, then Get is called,
\* once, then the continuation runs, once, in a context where Current is the
\* State Get returned, and Set is called only after it; the caller's own
\* context has no state bound.
C6_MachineOrder ==
    (Invoked("Machine") /\ Last.getErr = OutNil /\ Last.next # Nil) =>
        LET t == Last.trace
        IN  /\ Len(t) >= 3
            /\ t[1] = Ev("factory", 0, 0)
            /\ t[2] = Ev("Get", 0, Last.pre)
            /\ t[3] = Ev("h", 0, Last.pre)
            /\ At(t, "factory") = {1}
            /\ At(t, "Get") = {2}
            /\ At(t, "h") = {3}
            /\ \A i \in At(t, "Set") : i > 3
            /\ Current(Last.ctx) = 0

C6_Witness ==
    /\ Invoked("Machine")
    /\ Last.getErr = OutNil
    /\ Last.pre # 0
    /\ Len(Last.trace) = 4
    /\ Last.trace[3] = Ev("h", 0, Last.pre)
    /\ Last.trace[4].e = "Set"
    /\ Last.trace[4].cur # Last.pre

\* C7: Next(value) runs its continuation first; when the continuation fails,
\* Next returns that failure and value is not evaluated (the context function
\* is not called, no State is made); when it succeeds, Next evaluates value
\* and returns the result: a State of the literal key, the copy of the
\* ready-made State, or what the context function returns.
C7_NextAfterContinuation ==
    Invoked("Next") =>
        LET val == obj.args.val
            n == Len(HTrace(Last.next))
        IN  /\ SubSeq(Last.trace, 1, n) = HTrace(Last.next)
            /\ IF HOut(Last.next) # OutNil
               THEN /\ Last.out = HOut(Last.next)
                    /\ Last.trace = HTrace(Last.next)
                    /\ Last.allocs = 0
               ELSE CASE val.k = "string" ->
                           /\ Last.out.k = "state"
                           /\ Last.out.v # 0
                           /\ Last.allocs = 1
                           /\ heap[Last.out.v] = State(val.key, 0, 0)
                           /\ Last.trace = HTrace(Last.next)
                      [] val.k = "State" ->
                           /\ Last.out.k = "state"
                           /\ Last.out.v # 0
                           /\ Last.allocs = 0
                           /\ heap[Last.out.v] = val.s
                           /\ Last.trace = HTrace(Last.next)
                      [] val.k = "func" ->
                           /\ Last.trace = HTrace(Last.next) \o <<Ev("f", val.id, 0)>>
                           /\ IF val.ret.k = "new"
                              THEN /\ Last.out.k = "state"
                                   /\ Last.out.v # 0
                                   /\ heap[Last.out.v] = State(val.ret.key, 0, 0)
                              ELSE Last.out = val.ret

C7_Witness ==
    /\ Invoked("Next")
    /\ obj.args.val = FnVal(1, NewState("A"))
    /\ Last.next = HAtom(0, TestError)
    /\ Last.out = TestError
    /\ Last.trace = <<Ev("h", 0, 0)>>

C7_WitnessSuccess ==
    /\ Invoked("Next")
    /\ obj.args.val = FnVal(1, NewState("A"))
    /\ Last.next = HAtom(0, OutNil)
    /\ Last.out.k = "state"
    /\ Len(Last.trace) = 2

\* C8: with a Store that returns the State last given to Set, from a bottom
\* State S0: Push(A) stores a State of key A whose Prev is S0; a following
\* Push(B) stores a State of key B whose Prev is that A; a following Pop
\* stores A again; a further Pop stores S0.
C8_StackRoundTrip ==
    LET p == hist.ptrs
        n == Len(p)
    IN  /\ n >= 2 => store = p[n]
        /\ n = 2 => /\ store # 0
                    /\ heap[store].Key = hist.keys[1]
                    /\ heap[store].Prev = p[1]
        /\ n = 3 => /\ store # 0
                    /\ heap[store].Key = hist.keys[2]
                    /\ heap[store].Prev = p[2]
        /\ n = 4 => /\ store = p[2]
                    /\ heap[store].Key = hist.keys[1]
        /\ n = 5 => store = p[1]

C8_Witness ==
    /\ Len(hist.ptrs) = 5
    /\ hist.ptrs[1] # 0
    /\ hist.keys = <<"A", "B">>
    /\ store = hist.ptrs[1]

C8_WitnessEmptyStore ==
    /\ Len(hist.ptrs) = 5
    /\ hist.ptrs[1] = 0
    /\ store = 0

\* C15: when Store.Get fails, the Machine invocation returns exactly that
\* failure; the continuation is not invoked and Store.Set is not called: the
\* store is obtained and Get is called, nothing else happens.
C15_GetFailureAborts ==
    (Invoked("Machine") /\ Last.getErr # OutNil) =>
        /\ Last.out = Last.getErr
        /\ Last.trace = <<Ev("factory", 0, 0), Ev("Get", 0, 0)>>
        /\ Last.allocs = 0
        /\ store = Last.pre

C15_Witness ==
    /\ Invoked("Machine")
    /\ Last.getErr = GetError
    /\ Last.next = FailingStoreChain
    /\ Last.pre # 0
    /\ Last.out = GetError
    /\ store = Last.pre

RECURSIVE ReachesBottom(_, _)

\* whether following Prev from *State p reaches the absent bottom within n
\* steps
ReachesBottom(p, n) ==
    IF p = 0 THEN TRUE
    ELSE IF n = 0 THEN FALSE
    ELSE ReachesBottom(heap[p].Prev, n - 1)

\* the Prev chain of p is acyclic: it ends within as many steps as there are
\* State structs
Acyclic(p) == ReachesBottom(p, Len(heap))

\* C17: after any sequence of Machine invocations whose chains Push (a
\* literal key or a ready-made State, one Push value being reused across
\* invocations) or Pop, with a Store that returns the State last given to
\* Set, the Prev chain of the stored State is acyclic.
C17_PrevAcyclic ==
    obj.op = "Machine" => Acyclic(store)

\* a Push of a ready-made State was constructed
ReadyPush == \E t \in pool : t.f.k = "pushFn"

\* what the code does: the chain is acyclic as long as no Push middleware made
\* from a ready-made State is used; invoked twice in a row, such a Push makes
\* its one State its own Prev
C17_AcyclicWithoutReadyPush ==
    (obj.op = "Machine" /\ ~ReadyPush) => Acyclic(store)

C17_SelfCycle ==
    /\ Invoked("Machine")
    /\ ReadyPush
    /\ Last.next \in {Then(t, HAtom(0, OutNil)) : t \in pool}
    /\ store # 0
    /\ heap[store].Prev = store

\* no State struct that exists before a step differs after it
NoMutation == \A p \in DOMAIN heap : heap'[p] = heap[p]

\* C18: a transition never mutates an existing State: whatever is invoked,
\* and however often the same Push or Next value is invoked, the Key, Payload
\* and Prev of every State that exists (held by the Store, bound in a
\* context or produced by an earlier invocation) stay as they are.
C18_NoMutation == [][NoMutation]_vars

\* what the code does: existing States stay as they are as long as no Push
\* middleware made from a ready-made State is used
C18_NoMutationWithoutReadyPush == [][~ReadyPush => NoMutation]_vars

\* the second of two invocations of one Push(state) value found its State
\* in the Store, returned the same State and changed its Prev
C18_SecondPushMutates ==
    /\ Invoked("Machine")
    /\ ReadyPush
    /\ Last.next \in {Then(t, HAtom(0, OutNil)) : t \in pool}
    /\ Last.pre # 0
    /\ store = Last.pre
    /\ Last.allocs = 0
    /\ heap[store].Prev # 0

\* C19: when the continuation of Push(f) succeeds and the context function f
\* returns a genuine failure, Push returns that failure unchanged; a Machine
\* around it returns the failure and does not call Store.Set.
C19_PushPassesFailure ==
    /\ (Invoked("Push") /\ obj.args.val = FnVal(1, FnError)
          /\ HOut(Last.next) = OutNil) =>
         Last.out = FnError
    /\ (Invoked("Machine") /\ Last.getErr = OutNil
          /\ Last.next = Then(FailingPush, HAtom(0, OutNil))) =>
         /\ Last.out = FnError
         /\ At(Last.trace, "Set") = {}

\* what the code does: the failure is replaced by the nil *State, which Push
\* returns as a State signal, and the Machine hands it to Store.Set
C19_PushSignalsNilState ==
    /\ (Invoked("Push") /\ obj.args.val = FnVal(1, FnError)
          /\ HOut(Last.next) = OutNil) =>
         Last.out = OutState(0)
    /\ (Invoked("Machine") /\ Last.getErr = OutNil
          /\ Last.next = Then(FailingPush, HAtom(0, OutNil))) =>
         /\ Last.out = OutNil
         /\ Last.trace[Len(Last.trace)] = Ev("Set", 0, 0)
         /\ store = 0

\* a stored State was lost to the failure of a context function
C19_StoreCleared ==
    /\ Invoked("Machine")
    /\ Last.next = Then(FailingPush, HAtom(0, OutNil))
    /\ Last.pre # 0
    /\ store = 0
    /\ Last.out = OutNil

\* the last invocation was given the absent continuation
NilInvoked(ops) == obj.op \in ops /\ runs # <<>> /\ Last.next = Nil

\* C20: the Machine invoked with the absent continuation and a Store whose
\* Get succeeds returns success, without a panic and without calling
\* Store.Set, as Next, Push and With do not panic on the absent continuation.
C20_MachineNilSafe ==
    /\ (NilInvoked({"Machine"}) /\ Last.getErr = OutNil) =>
         /\ Last.out = OutNil
         /\ At(Last.trace, "Set") = {}
    /\ NilInvoked({"Next", "Push", "With"}) => Last.out # OutPanic

\* what the code does: the Machine calls the absent continuation as a
\* function and panics, after Get and before any Set; Next, Push and With
\* apply it and do not
C20_MachinePanicsOnNil ==
    /\ (NilInvoked({"Machine"}) /\ Last.getErr = OutNil) =>
         /\ Last.out = OutPanic
         /\ Last.trace = <<Ev("factory", 0, 0), Ev("Get", 0, Last.pre)>>
    /\ NilInvoked({"Next", "Push", "With"}) => Last.out # OutPanic

\* C21: in a chain outer.Then(inner.Then(h)) of transition middlewares whose
\* handler succeeds, the outer middleware returns the State the inner one
\* signals and does not evaluate its own value (its context function is not
\* called, no State is made for it); the Machine calls Store.Set exactly once,
\* with the inner middleware's State: for an inner Push("A") a new State of
\* key A whose Prev is the State loaded, for an inner Next("A") a new State
\* of key A without Prev, for an inner Pop the Prev of the State loaded.
C21_InnermostSignalWins ==
    (Invoked("Machine") /\ Last.next \in NestedChains /\ Last.getErr = OutNil
       /\ Last.sig.k = "state") =>
        LET t == Last.trace
            made == Len(heap)
        IN  /\ t = <<Ev("factory", 0, 0), Ev("Get", 0, Last.pre),
                     Ev("h", 0, Last.pre), Ev("Set", 0, Last.sig.v)>>
            /\ Last.out = OutNil
            /\ store = Last.sig.v
            /\ CASE Last.next = NestedPush ->
                      /\ Last.allocs = 1
                      /\ Last.sig.v = made
                      /\ heap[made] = State("A", 0, Last.pre)
                 [] Last.next = NestedNext ->
                      /\ Last.allocs = 1
                      /\ Last.sig.v = made
                      /\ heap[made] = State("A", 0, 0)
                 [] Last.next = NestedPop ->
                      /\ Last.allocs = 0
                      /\ Last.pre # 0
                      /\ Last.sig.v = heap[Last.pre].Prev

C21_Witness ==
    /\ Invoked("Machine")
    /\ Last.next = NestedPush
    /\ Last.pre # 0
    /\ Last.sig.k = "state"
    /\ store = Len(heap)
    /\ heap[store] = State("A", 0, Last.pre)
    /\ Cardinality(At(Last.trace, "Set")) = 1

C21_WitnessPop ==
    /\ Invoked("Machine")
    /\ Last.next = NestedPop
    /\ Last.pre # 0
    /\ heap[Last.pre].Prev # 0
    /\ store = heap[Last.pre].Prev
    /\ At(Last.trace, "f") = {}

\* the *State that Current returned in the continuation of the last invocation
Seen == Last.trace[1].cur

\* C13: With(s) invokes its continuation h exactly once, in a context in
\* which Current returns s, and calls no Store operation.
C13_WithBindsCurrent ==
    (Invoked("With") /\ Last.next # Nil) =>
        /\ At(Last.trace, "h") = {1}
        /\ Seen # 0
        /\ heap[Seen] = obj.args.val.s
        /\ At(Last.trace, "Get") \cup At(Last.trace, "Set") = {}

\* what the code does: the continuation runs once, no Store operation is
\* made, and Current returns nil in the continuation, where Match(s.Key) is
\* false
C13_WithHidesState ==
    (Invoked("With") /\ Last.next # Nil) =>
        /\ At(Last.trace, "h") = {1}
        /\ Seen = 0
        /\ At(Last.trace, "Get") \cup At(Last.trace, "Set") = {}
        /\ Last.next = MatchHandler(StrVal("A")) =>
             Last.trace = <<Ev("h", 0, 0), Ev("false", 0, 0)>>

\* C14: in a context where Current is absent, because nothing was injected
\* or because the Machine injected the absent State its Store returned,
\* Match(target) is false and does not panic, for every target.
C14_MatchAbsentIsFalse ==
    /\ Invoked("Match") =>
         /\ Last.out = OutNil
         /\ Last.trace = <<Ev("h", 0, 0), Ev("false", 0, 0)>>
    /\ (Invoked("Machine") /\ Last.next \in MatchHandlers
           /\ Last.getErr = OutNil /\ Last.pre = 0) =>
         /\ Last.out = OutNil
         /\ Last.trace = <<Ev("factory", 0, 0), Ev("Get", 0, 0), Ev("h", 0, 0),
                           Ev("false", 0, 0)>>

\* what the code does with the absent State injected by the Machine: the
\* predicates of a literal key and of a regular expression read the Key of
\* the nil pointer and panic; the predicate of a *State is false
C14_MatchAbsentPanics ==
    (Invoked("Machine") /\ Last.next \in MatchHandlers
       /\ Last.getErr = OutNil /\ Last.pre = 0) =>
        IF Last.next.t.k \in {"string", "Regexp"}
        THEN Last.out = OutPanic
        ELSE Last.out = OutNil /\ Last.trace[4] = Ev("false", 0, 0)

\* the absent State was stored by a Pop past the bottom before the predicate
\* of a literal key panicked
C14_AfterPopPastBottom ==
    /\ Invoked("Machine")
    /\ Last.next = MatchHandler(StrVal("A"))
    /\ Last.pre = 0
    /\ Len(heap) > 0
    /\ Last.out = OutPanic

=============================================================================
